---- MODULE Spec2Model ----
(***************************************************************************)
(* Model of src/main.py: the "Buscar" handler (fetch orchestrator), the    *)
(* paid-API adapter serpapi_fetch_authors and the scraping adapter         *)
(* scholarly_fetch_authors with setup_scholarly.                           *)
(*                                                                         *)
(* Python values are tagged records [t, v] so that values of different     *)
(* Python types stay comparable: t = "str" (v is a string id, 0 is the     *)
(* string "N/A"), t = "int" (v is the number), t = "none" (None).  A key   *)
(* that a dict does not have is the field value ABSENT.                    *)
(***************************************************************************)
EXTENDS Integers, Sequences, FiniteSets, TLC

\* ------------------------------------------------------------------ bounds
\* largest "Qtd. pesquisadores" tried (the widget allows 1..50)
MaxResults == 3
\* longest authors list a paid-API response carries
MaxAuthors == 3
\* most next(q) pulls of the scraping stream followed in one fetch
MaxPulls == 6

\* ------------------------------------------------------------ Python values
PyStr(i) == [t |-> "str", v |-> i]
PyInt(i) == [t |-> "int", v |-> i]
None == [t |-> "none", v |-> 0]
ABSENT == [t |-> "absent", v |-> 0]
\* the sentinel string "N/A"
NA == PyStr(0)

\* d.get(key, default) for the field value of key in d
DictGet(field, default) == IF field = ABSENT THEN default ELSE field

Min(a, b) == IF a < b THEN a ELSE b

\* ------------------------------------------------------------------ inputs
EngineAuto == "Auto (SerpAPI se houver chave, senao Scholarly)"
EngineSerpapi == "Apenas SerpAPI"
EngineScholarly == "Apenas Scholarly"
Engines == {EngineAuto, EngineSerpapi, EngineScholarly}

\* engine.startswith("Auto"): of the three options only the first does
StartsWithAuto(e) == e = EngineAuto

\* text typed in the area box, as a sequence of characters
Areas == {<<>>, <<" ">>, <<"m">>, <<" ", "m", " ">>}
Keys == {"", "k"}

RECURSIVE lstrip(_)
lstrip(s) == IF s # <<>> /\ Head(s) = " " THEN lstrip(Tail(s)) ELSE s

RECURSIVE rstrip(_)
rstrip(s) ==
    IF s # <<>> /\ s[Len(s)] = " " THEN rstrip(SubSeq(s, 1, Len(s) - 1)) ELSE s

\* str.strip()
strip(s) == rstrip(lstrip(s))

\* ----------------------------------------------------- paid-API backend data
\* one row of cited_by.table
Row(isdict, citations) == [isdict |-> isdict, citations |-> citations]
\* the value under "table"
Table(t, rows) == [t |-> t, rows |-> rows]
NoTable == Table("absent", <<>>)
\* the value under "cited_by"
CitedBy(t, v, table) == [t |-> t, v |-> v, table |-> table]
\* one entry of the authors list
Item(isdict, name, cited_by, affiliations) ==
    [isdict |-> isdict, name |-> name, cited_by |-> cited_by,
     affiliations |-> affiliations]

ItemNested ==
    Item(TRUE, PyStr(1),
         CitedBy("dict", 0, Table("list", <<Row(TRUE, PyInt(42))>>)), PyStr(11))
ItemScalar == Item(TRUE, PyStr(2), CitedBy("int", 42, NoTable), PyStr(12))
ItemNoCitedBy == Item(TRUE, PyStr(3), CitedBy("absent", 0, NoTable), PyStr(13))
ItemNullCitedBy == Item(TRUE, ABSENT, CitedBy("none", 0, NoTable), ABSENT)
ItemNoTable == Item(TRUE, PyStr(5), CitedBy("dict", 0, NoTable), PyStr(15))
ItemEmptyTable ==
    Item(TRUE, PyStr(6), CitedBy("dict", 0, Table("list", <<>>)), PyStr(16))
ItemEmptyRow ==
    Item(TRUE, PyStr(7),
         CitedBy("dict", 0, Table("list", <<Row(TRUE, ABSENT)>>)), PyStr(17))
ItemNotDict == Item(FALSE, ABSENT, CitedBy("absent", 0, NoTable), ABSENT)
ItemNullTable ==
    Item(TRUE, PyStr(8), CitedBy("dict", 0, Table("none", <<>>)), PyStr(18))
ItemNullRow ==
    Item(TRUE, PyStr(9),
         CitedBy("dict", 0, Table("list", <<Row(FALSE, ABSENT)>>)), PyStr(19))

SerpItems ==
    {ItemNested, ItemScalar, ItemNoCitedBy, ItemNullCitedBy, ItemNoTable,
     ItemEmptyTable, ItemEmptyRow, ItemNotDict, ItemNullTable, ItemNullRow}

\* the value under "authors" of the JSON body
Authors(t, items) == [t |-> t, items |-> items]
\* what requests.get / raise_for_status / r.json() give
Response(kind, isdict, authors) ==
    [kind |-> kind, isdict |-> isdict, authors |-> authors]
NoResponse == Response("none", FALSE, Authors("absent", <<>>))

AuthorLists == UNION {[1..n -> SerpItems] : n \in 0..MaxAuthors}

Responses ==
    {Response(k, FALSE, Authors("absent", <<>>)) :
        k \in {"transport_error", "http_error", "bad_json"}}
    \cup {Response("ok", FALSE, Authors("absent", <<>>))}
    \cup {Response("ok", TRUE, Authors(t, <<>>)) : t \in {"absent", "none", "other"}}
    \cup {Response("ok", TRUE, Authors("list", l)) : l \in AuthorLists}

\* --------------------------------------------------- scraping backend data
Author(name, citedby, affiliation) ==
    [name |-> name, citedby |-> citedby, affiliation |-> affiliation]
ScholarAuthors ==
    {Author(PyStr(21), PyInt(10), PyStr(31)), Author(PyStr(22), ABSENT, ABSENT)}

\* ---------------------------------------------------------------- records
Record(name, citations, affiliation) ==
    [name |-> name, citations |-> citations, affiliation |-> affiliation]

\* ------------------------------------------------------- paid-API adapter
\* a value or the exception its computation raised ("none": no exception)
Ok(val) == [exc |-> "none", val |-> val]
Raise(kind) == [exc |-> kind, val |-> None]

\* (item.get("cited_by") or {}).get("table", [{}])[0].get("citations", "N/A")
NestedCitations(cited_by) ==
    LET table == cited_by.table IN
    CASE table.t = "absent" -> Ok(NA)
      [] table.t = "none" -> Raise("TypeError")
      [] table.t = "list" /\ table.rows = <<>> -> Raise("IndexError")
      [] table.t = "list" /\ ~table.rows[1].isdict -> Raise("AttributeError")
      [] OTHER -> Ok(DictGet(table.rows[1].citations, NA))

\* the "citations" expression: nested when cited_by is a dict, else
\* item.get("cited_by"), which is None for a missing key
serpapi_citations(item) ==
    IF item.cited_by.t = "dict"
    THEN NestedCitations(item.cited_by)
    ELSE IF item.cited_by.t = "int"
         THEN Ok(PyInt(item.cited_by.v))
         ELSE Ok(None)

\* the dict appended for one item
serpapi_record(item) ==
    IF ~item.isdict
    THEN Raise("AttributeError")
    ELSE LET c == serpapi_citations(item) IN
         IF c.exc # "none"
         THEN Raise(c.exc)
         ELSE Ok(Record(DictGet(item.name, NA), c.val,
                        DictGet(item.affiliations, NA)))

\* the slice without its [:max_results] bound
serpapi_slice_untruncated(authors, n) ==
    CASE authors.t \in {"absent", "none"} -> Ok(<<>>)
      [] authors.t = "other" -> Raise("TypeError")
      [] OTHER -> Ok(authors.items)

\* (data.get("authors") or [])[:max_results]
serpapi_slice(authors, n) ==
    CASE authors.t \in {"absent", "none"} -> Ok(<<>>)
      [] authors.t = "other" -> Raise("TypeError")
      [] OTHER -> Ok(SubSeq(authors.items, 1, Min(n, Len(authors.items))))

\* the for loop: out after all items, or the first exception
RECURSIVE serpapi_loop(_, _)
serpapi_loop(items, out) ==
    IF items = <<>>
    THEN Ok(out)
    ELSE LET rec == serpapi_record(Head(items)) IN
         IF rec.exc # "none"
         THEN Raise(rec.exc)
         ELSE serpapi_loop(Tail(items), Append(out, rec.val))

\* the body of the try block
serpapi_try(r, n) ==
    CASE r.kind = "transport_error" -> Raise("RequestException")
      [] r.kind = "http_error" -> Raise("HTTPError")
      [] r.kind = "bad_json" -> Raise("JSONDecodeError")
      [] ~r.isdict -> Raise("AttributeError")
      [] OTHER ->
          LET s == serpapi_slice(r.authors, n) IN
          IF s.exc # "none" THEN Raise(s.exc) ELSE serpapi_loop(s.val, <<>>)

\* except requests.RequestException: only the transport and status failures
ExceptRequestsOnly(kind) == kind \in {"RequestException", "HTTPError"}

\* except Exception: every exception the try block can raise is one
ExceptException(kind) == kind # "none"

\* the adapter: what it returns, whether it reported an error, and the
\* exception that left it uncaught ("none" when it returned)
serpapi_fetch_authors(r, n) ==
    LET b == serpapi_try(r, n) IN
    IF b.exc = "none"
    THEN [raised |-> "none", reported |-> FALSE, out |-> b.val]
    ELSE IF ExceptException(b.exc)
         THEN [raised |-> "none", reported |-> TRUE, out |-> <<>>]
         ELSE [raised |-> b.exc, reported |-> FALSE, out |-> <<>>]

\* ------------------------------------------------------- scraping adapter
\* if ok: ... else ... / except of setup_scholarly, by what FreeProxies did
ProxyOutcomes == {"enabled", "failed", "error"}

setup_scholarly(has_scholarly, use_proxies, outcome) ==
    CASE ~has_scholarly -> [ok |-> FALSE, msg |-> "unavailable"]
      [] ~use_proxies -> [ok |-> TRUE, msg |-> "direct"]
      [] outcome = "enabled" -> [ok |-> TRUE, msg |-> "enabled"]
      [] outcome = "failed" -> [ok |-> FALSE, msg |-> "failed"]
      [] OTHER -> [ok |-> FALSE, msg |-> "error"]

\* the dict appended for one filled author
scholarly_record(author) ==
    Record(DictGet(author.name, NA), DictGet(author.citedby, NA),
           DictGet(author.affiliation, NA))

\* while len(results) <= max_results
LoopCondOffByOne(res, n) == Len(res) <= n

\* while len(results) < max_results
LoopCond(res, n) == Len(res) < n

\* threshold of consecutive errors that abandons an empty fetch
ABANDON_AFTER == 3

\* the abandon test one failure late
EarlyAbandonLate(errors, res) == errors > ABANDON_AFTER /\ Len(res) = 0

\* if consecutive_errors >= 3 and len(results) == 0
EarlyAbandon(errors, res) == errors >= ABANDON_AFTER /\ Len(res) = 0

\* consecutive_errors = 1
count_error_restart(errors) == 1

\* consecutive_errors += 1
count_error(errors) == errors + 1

\* least n for which the float 1.5 ** n is out of range (OverflowError):
\* 1.5 ** 1750 is about 1.44e308, 1.5 ** 1751 exceeds the largest double
POW_OVERFLOW_AT == 1751

\* least n for which 1.5 ** n > 6, so that min(6, 1.5 ** n) is 6
BACKOFF_CAPPED_AT == 5

\* min(6, 1.5 ** consecutive_errors) in milliseconds, or the OverflowError
\* of the power
Backoff(errors) ==
    CASE errors >= POW_OVERFLOW_AT -> Raise("OverflowError")
      [] errors >= BACKOFF_CAPPED_AT -> Ok(6000)
      [] OTHER -> Ok((1000 * 3 ^ errors) \div 2 ^ errors)

\* the early return taken when the proxy setup was not ok
SkipScholarlyOnProxy(has_scholarly, ok_proxy) == ~ok_proxy

\* if not HAS_SCHOLARLY (ok_proxy is not read)
SkipScholarly(has_scholarly, ok_proxy) == ~has_scholarly

\* ----------------------------------------------------------- orchestrator
\* use_serpapi asking for a key in "Apenas SerpAPI" mode too
use_serpapi_needs_key(e, key) ==
    (e \in {EngineSerpapi} \/ StartsWithAuto(e)) /\ key # ""

\* use_serpapi ignoring the key in Auto mode
use_serpapi_ignores_key(e, key) == (e \in {EngineSerpapi}) \/ StartsWithAuto(e)

\* use_serpapi
use_serpapi(e, key) == (e \in {EngineSerpapi}) \/ (StartsWithAuto(e) /\ key # "")

\* the fallback test that does not look at the results
NeedFallbackAlways(res, e) == StartsWithAuto(e)

\* the fallback test that never falls back
NeedFallbackNever(res, e) == FALSE

\* if not results and engine.startswith("Auto")
NeedFallback(res, e) == res = <<>> /\ StartsWithAuto(e)

\* ------------------------------------------------------------------ state
VARIABLES
    HAS_SCHOLARLY,       \* whether the scholarly import succeeded
    max_results, engine, use_proxies, serpapi_key, area,   \* the widgets
    pc,                  \* where the run of the script is
    results,             \* the handler's results
    shown,               \* the records the page displays
    r,                   \* serpapi_fetch_authors: the response being read
    sres,                \* scholarly_fetch_authors: its local results
    consecutive_errors,  \* scholarly_fetch_authors: its error counter
    pulls,               \* number of next(q) calls made on the stream
    proxy_msg,           \* scholarly_fetch_authors: setup_scholarly's message
    calls,               \* adapter invocations so far, with their arguments
    rets,                \* what each finished adapter invocation returned
    msgs,                \* st.* messages shown so far
    opens,               \* number of scholarly.search_author calls made
    attempts,            \* scholarly.fill calls made on the last candidate pulled
    sleeps,              \* number of jitter_sleep / time.sleep calls made
    last_pull,           \* how the last pass of the loop body went
    yielded              \* the authors next(q) yielded and fill completed

inputs == <<HAS_SCHOLARLY, max_results, engine, use_proxies, serpapi_key, area>>
vars ==
    <<HAS_SCHOLARLY, max_results, engine, use_proxies, serpapi_key, area, pc,
      results, shown, r, sres, consecutive_errors, pulls, proxy_msg, calls,
      rets, msgs, opens, attempts, sleeps, last_pull, yielded>>

\* the bookkeeping of the scraping loop
loop_counts == <<opens, attempts, sleeps, last_pull, yielded>>

Call(fn, a, n) == [fn |-> fn, area |-> a, max_results |-> n]

Init ==
    /\ HAS_SCHOLARLY \in BOOLEAN
    /\ max_results \in 1..MaxResults
    /\ engine \in Engines
    /\ use_proxies \in BOOLEAN
    /\ serpapi_key \in Keys
    /\ area \in Areas
    /\ pc = "idle"
    /\ results = <<>>
    /\ shown = <<>>
    /\ r = NoResponse
    /\ sres = <<>>
    /\ consecutive_errors = 0
    /\ pulls = 0
    /\ proxy_msg = "unset"
    /\ calls = <<>>
    /\ rets = <<>>
    /\ msgs = <<>>
    /\ opens = 0
    /\ attempts = 0
    /\ sleeps = 0
    /\ last_pull = "none"
    /\ yielded = <<>>

\* if st.button("Buscar"): the area check, results = [], engine selection
Buscar ==
    /\ pc = "idle"
    /\ IF strip(area) = <<>>
       THEN /\ msgs' = Append(msgs, "warning_area")
            /\ pc' = "end"
       ELSE /\ msgs' = msgs
            /\ pc' = IF use_serpapi(engine, serpapi_key)
                     THEN "serpapi_call"
                     ELSE "scholarly_call"
    /\ results' = <<>>
    /\ UNCHANGED loop_counts
    /\ UNCHANGED <<inputs, shown, r, sres, consecutive_errors, pulls,
                   proxy_msg, calls, rets>>

\* serpapi_fetch_authors(area.strip(), max_results, serpapi_key), for every
\* answer of the backend
SerpapiFetch ==
    /\ pc = "serpapi_call"
    /\ \E resp \in Responses :
         LET res == serpapi_fetch_authors(resp, max_results) IN
         /\ r' = resp
         /\ calls' = Append(calls, Call("serpapi", strip(area), max_results))
         /\ IF res.raised # "none"
            THEN /\ pc' = "crashed"
                 /\ UNCHANGED <<rets, msgs>>
            ELSE /\ pc' = "serpapi_return"
                 /\ rets' = Append(rets, res.out)
                 /\ msgs' = IF res.reported
                            THEN Append(msgs, "error_serpapi")
                            ELSE msgs
    /\ UNCHANGED loop_counts
    /\ UNCHANGED <<inputs, results, shown, sres, consecutive_errors, pulls,
                   proxy_msg>>

\* results = serpapi_fetch_authors(...); if not results and Auto: fall back
SerpapiReturn ==
    /\ pc = "serpapi_return"
    /\ results' = rets[Len(rets)]
    /\ r' = NoResponse
    /\ IF NeedFallback(results', engine)
       THEN /\ msgs' = Append(msgs, "info_fallback")
            /\ pc' = "scholarly_call"
       ELSE /\ msgs' = msgs
            /\ pc' = "display"
    /\ UNCHANGED loop_counts
    /\ UNCHANGED <<inputs, shown, sres, consecutive_errors, pulls, proxy_msg,
                   calls, rets>>

\* scholarly_fetch_authors(area.strip(), max_results, use_proxies): proxy
\* setup, results = [], the HAS_SCHOLARLY check
ScholarlyCall ==
    /\ pc = "scholarly_call"
    /\ \E outcome \in ProxyOutcomes :
         LET setup == setup_scholarly(HAS_SCHOLARLY, use_proxies, outcome) IN
         /\ proxy_msg' = setup.msg
         /\ IF SkipScholarly(HAS_SCHOLARLY, setup.ok)
            THEN /\ msgs' = Append(msgs, "info_skip")
                 /\ rets' = Append(rets, <<>>)
                 /\ pc' = "scholarly_return"
            ELSE /\ msgs' = msgs
                 /\ rets' = rets
                 /\ pc' = "scholarly_open"
    /\ calls' = Append(calls, Call("scholarly", strip(area), max_results))
    /\ sres' = <<>>
    /\ UNCHANGED loop_counts
    /\ UNCHANGED <<inputs, results, shown, r, consecutive_errors, pulls>>

\* q = scholarly.search_author(area), failing or not; consecutive_errors = 0
ScholarlyOpen ==
    /\ pc = "scholarly_open"
    /\ opens' = opens + 1
    /\ \E opened \in BOOLEAN :
         IF opened
         THEN /\ consecutive_errors' = 0
              /\ pc' = "scholarly_loop"
              /\ UNCHANGED <<rets, msgs>>
         ELSE /\ msgs' = Append(msgs, "error_open")
              /\ rets' = Append(rets, sres)
              /\ pc' = "scholarly_return"
              /\ UNCHANGED consecutive_errors
    /\ UNCHANGED <<attempts, sleeps, last_pull, yielded>>
    /\ UNCHANGED <<inputs, results, shown, r, sres, pulls, proxy_msg, calls>>

\* one pass of the loop body in which next(q) and scholarly.fill succeed:
\* append, reset the counter, jitter_sleep
ScholarlyPullOk ==
    /\ pc = "scholarly_loop"
    /\ LoopCond(sres, max_results)
    /\ \E author \in ScholarAuthors :
         /\ yielded' = Append(yielded, author)
         /\ sres' = Append(sres, scholarly_record(author))
    /\ consecutive_errors' = 0
    /\ pulls' = pulls + 1
    /\ attempts' = 1
    /\ sleeps' = sleeps + 1
    /\ last_pull' = "ok"
    /\ UNCHANGED opens
    /\ UNCHANGED <<inputs, pc, results, shown, r, proxy_msg, calls, rets, msgs>>

\* StopIteration caught by the except Exception clause: counted as an error
ScholarlyPullStopAsError ==
    /\ pc = "scholarly_loop"
    /\ LoopCond(sres, max_results)
    /\ pulls < MaxPulls
    /\ pulls' = pulls + 1
    /\ last_pull' = "stop"
    /\ attempts' = 0
    /\ consecutive_errors' = count_error(consecutive_errors)
    /\ msgs' = Append(msgs, "warning_pull")
    /\ sleeps' = sleeps + 1
    /\ pc' = IF EarlyAbandon(consecutive_errors', sres)
             THEN "scholarly_end"
             ELSE "scholarly_loop"
    /\ UNCHANGED <<opens, yielded>>
    /\ UNCHANGED <<inputs, results, shown, r, sres, proxy_msg, calls, rets>>

\* one pass in which next(q) raises StopIteration: break
ScholarlyPullStop ==
    /\ pc = "scholarly_loop"
    /\ LoopCond(sres, max_results)
    /\ pulls' = pulls + 1
    /\ last_pull' = "stop"
    /\ attempts' = 0
    /\ pc' = "scholarly_end"
    /\ UNCHANGED <<opens, sleeps, yielded>>
    /\ UNCHANGED <<inputs, results, shown, r, sres, consecutive_errors,
                   proxy_msg, calls, rets, msgs>>

\* one pass in which next(q), or scholarly.fill after it, raises another
\* exception: count, warn, back off, abandon or continue
ScholarlyPullFail ==
    /\ pc = "scholarly_loop"
    /\ LoopCond(sres, max_results)
    /\ pulls < MaxPulls
    /\ pulls' = pulls + 1
    /\ \E failed \in {"next_error", "fill_error"} :
         /\ last_pull' = failed
         /\ attempts' = IF failed = "fill_error" THEN 1 ELSE 0
    /\ consecutive_errors' = count_error(consecutive_errors)
    /\ msgs' = Append(msgs, "warning_pull")
    /\ IF Backoff(consecutive_errors').exc # "none"
       THEN /\ pc' = "scholarly_raised"
            /\ UNCHANGED sleeps
       ELSE /\ sleeps' = sleeps + 1
            /\ pc' = IF EarlyAbandon(consecutive_errors', sres)
                     THEN "scholarly_end"
                     ELSE "scholarly_loop"
    /\ UNCHANGED <<opens, yielded>>
    /\ UNCHANGED <<inputs, results, shown, r, sres, proxy_msg, calls, rets>>

\* the passes of a stream that, with a result accumulated, raises on every
\* further next(q), taken as one step: no pass abandons (len(results) > 0),
\* each counts, warns and backs off, until 1.5 ** consecutive_errors raises
\* OverflowError inside the except block and leaves the adapter and the
\* handler uncaught.  The warnings of the run are one entry of msgs.
ScholarlyFailRun ==
    /\ pc = "scholarly_loop"
    /\ LoopCond(sres, max_results)
    /\ Len(sres) >= 1
    /\ consecutive_errors < POW_OVERFLOW_AT
    /\ LET passes == POW_OVERFLOW_AT - consecutive_errors IN
       /\ pulls' = pulls + passes
       /\ sleeps' = sleeps + (passes - 1)
    /\ consecutive_errors' = POW_OVERFLOW_AT
    /\ msgs' = Append(msgs, "warning_pull_run")
    /\ last_pull' = "next_error"
    /\ pc' = IF Backoff(consecutive_errors').exc # "none"
             THEN "scholarly_raised"
             ELSE "scholarly_loop"
    /\ attempts' = 0
    /\ UNCHANGED <<opens, yielded>>
    /\ UNCHANGED <<inputs, results, shown, r, sres, proxy_msg, calls, rets>>

\* the while condition is false: the loop ends
ScholarlyLoopExit ==
    /\ pc = "scholarly_loop"
    /\ ~LoopCond(sres, max_results)
    /\ pc' = "scholarly_end"
    /\ UNCHANGED loop_counts
    /\ UNCHANGED <<inputs, results, shown, r, sres, consecutive_errors, pulls,
                   proxy_msg, calls, rets, msgs>>

\* st.caption(proxy state); return results
ScholarlyEnd ==
    /\ pc = "scholarly_end"
    /\ msgs' = Append(msgs, "caption")
    /\ rets' = Append(rets, sres)
    /\ pc' = "scholarly_return"
    /\ UNCHANGED loop_counts
    /\ UNCHANGED <<inputs, results, shown, r, sres, consecutive_errors, pulls,
                   proxy_msg, calls>>

\* results = scholarly_fetch_authors(...) in the handler
ScholarlyReturn ==
    /\ pc = "scholarly_return"
    /\ results' = rets[Len(rets)]
    /\ pc' = "display"
    /\ UNCHANGED loop_counts
    /\ UNCHANGED <<inputs, shown, r, sres, consecutive_errors, pulls,
                   proxy_msg, calls, rets, msgs>>

\* the display block: the records go to the page, or the empty-state warning
Display ==
    /\ pc = "display"
    /\ shown' = results
    /\ msgs' = Append(msgs, IF results # <<>> THEN "success" ELSE "warning_empty")
    /\ pc' = "done"
    /\ UNCHANGED loop_counts
    /\ UNCHANGED <<inputs, results, r, sres, consecutive_errors, pulls,
                   proxy_msg, calls, rets>>

Next ==
    \/ Buscar
    \/ SerpapiFetch
    \/ SerpapiReturn
    \/ ScholarlyCall
    \/ ScholarlyOpen
    \/ ScholarlyPullOk
    \/ ScholarlyPullStop
    \/ ScholarlyPullFail
    \/ ScholarlyFailRun
    \/ ScholarlyLoopExit
    \/ ScholarlyEnd
    \/ ScholarlyReturn
    \/ Display

Spec == Init /\ [][Next]_vars

\* the script is one thread that always takes its next step
FairSpec == Spec /\ WF_vars(Next)

\* ----------------------------------------------------------------- claims
\* what the last finished adapter invocation returned
LastRet == rets[Len(rets)]

\* the scraping loop has given up after three failures and no result
Abandoned ==
    /\ consecutive_errors >= 3
    /\ sres = <<>>
    /\ pc \in {"scholarly_end", "scholarly_return", "display", "done"}

\* C1: for every max_results, source mode, credential and backend behaviour,
\* the sequence handed to the page (and every sequence an adapter returns or
\* the handler holds on the way) has at most max_results records.
C1_LengthBound ==
    /\ Len(shown) <= max_results
    /\ Len(results) <= max_results
    /\ \A i \in DOMAIN rets : Len(rets[i]) <= max_results

\* C1 witness: a fetch that fell back to scraping and displays exactly
\* max_results records, more than one.
C1_Witness ==
    /\ pc = "done"
    /\ Len(calls) = 2
    /\ max_results >= 2
    /\ Len(shown) = max_results

\* a field holds a real value or the "N/A" sentinel
Populated(v) == v.t \in {"str", "int"}

\* C2: every record either adapter returns has name, citations and
\* affiliation populated with a real value or "N/A", never null, also for a
\* paid-API entry without cited_by or with a null cited_by.
C2_FieldsPopulated ==
    \A i \in DOMAIN rets :
        \A j \in DOMAIN rets[i] :
            /\ Populated(rets[i][j].name)
            /\ Populated(rets[i][j].citations)
            /\ Populated(rets[i][j].affiliation)

\* C3: when the first three pulls of the scraping loop all fail (three
\* consecutive errors and nothing accumulated), the loop is over after the
\* third: no fourth pull is made and the adapter returns the empty sequence.
C3_EarlyAbandon ==
    (consecutive_errors >= 3 /\ sres = <<>>) =>
        /\ pc # "scholarly_loop"
        /\ pulls = 3
        /\ consecutive_errors = 3
        /\ pc \in {"scholarly_return", "display", "done"} => LastRet = <<>>

\* C3 witness: a finished fetch whose scraping loop gave up after three
\* failures although two or more results were asked for.
C3_Witness ==
    /\ pc = "done"
    /\ Abandoned
    /\ pulls = 3
    /\ max_results >= 2
    /\ shown = <<>>

\* C4: in Auto mode with a key, when the paid-API adapter returned the empty
\* sequence, the finished fetch has invoked the scraping adapter next, with
\* the same area and max_results, and displays exactly what it returned.
C4_AutoFallback ==
    (/\ pc = "done"
     /\ engine = EngineAuto
     /\ serpapi_key # ""
     /\ Len(rets) >= 1
     /\ rets[1] = <<>>) =>
        /\ Len(calls) = 2
        /\ Len(rets) = 2
        /\ calls[1].fn = "serpapi"
        /\ calls[2] = Call("scholarly", calls[1].area, calls[1].max_results)
        /\ calls[2].max_results = max_results
        /\ shown = rets[2]

\* C4 witness: a finished Auto fetch with a key where the paid API reported
\* an error and the scraping fallback supplied the displayed records.
C4_Witness ==
    /\ pc = "done"
    /\ engine = EngineAuto
    /\ serpapi_key # ""
    /\ Len(rets) = 2
    /\ rets[1] = <<>>
    /\ rets[2] # <<>>
    /\ shown = rets[2]
    /\ \E i \in DOMAIN msgs : msgs[i] = "error_serpapi"

ScholarlyPcs ==
    {"scholarly_call", "scholarly_open", "scholarly_loop", "scholarly_end",
     "scholarly_return"}

\* C5: in "Apenas SerpAPI" mode with an empty key the paid-API adapter is
\* still invoked and the scraping adapter never is, also when the paid-API
\* adapter returns the empty sequence.
C5_ApiOnlyNoKey ==
    (engine = EngineSerpapi /\ serpapi_key = "") =>
        /\ pc \notin ScholarlyPcs
        /\ \A i \in DOMAIN calls : calls[i].fn = "serpapi"
        /\ pc \in {"serpapi_return", "display", "done"} => Len(calls) = 1

\* C5 witness: a finished "Apenas SerpAPI" fetch without key whose only
\* adapter call, to the paid API, returned nothing.
C5_Witness ==
    /\ pc = "done"
    /\ engine = EngineSerpapi
    /\ serpapi_key = ""
    /\ Len(calls) = 1
    /\ calls[1].fn = "serpapi"
    /\ rets = << <<>> >>
    /\ shown = <<>>

\* C6: when scraping is the primary adapter ("Apenas Scholarly", or Auto
\* without key) it is invoked exactly once and the paid API never, also when
\* it returns empty or abandons early; in Auto mode the first adapter
\* invoked is the paid API exactly when the key is non-empty.
C6_ScrapingPrimary ==
    /\ (engine = EngineScholarly \/ (engine = EngineAuto /\ serpapi_key = "")) =>
          /\ pc \notin {"serpapi_call", "serpapi_return"}
          /\ \A i \in DOMAIN calls : calls[i].fn = "scholarly"
          /\ Len(calls) <= 1
          /\ pc \in {"display", "done"} => Len(calls) = 1
    /\ (engine = EngineAuto /\ calls # <<>>) =>
          (calls[1].fn = "serpapi" <=> serpapi_key # "")

\* C6 witness: a finished Auto fetch without key whose single scraping call
\* abandoned early and returned nothing.
C6_Witness ==
    /\ pc = "done"
    /\ engine = EngineAuto
    /\ serpapi_key = ""
    /\ Abandoned
    /\ Len(calls) = 1
    /\ calls[1].fn = "scholarly"
    /\ shown = <<>>

\* C7: when the scraping adapter abandons early (three consecutive failures,
\* no result), the orchestrator tries a fallback source for the request: the
\* finished fetch has invoked another adapter after the scraping adapter.
C7_FallbackAfterAbandon ==
    (pc = "done" /\ Abandoned) =>
        /\ calls # <<>>
        /\ calls[Len(calls)].fn # "scholarly"

\* the paid-API adapter has just returned after reading a JSON object whose
\* "authors" is a list
SerpapiReadList ==
    /\ pc = "serpapi_return"
    /\ r.kind = "ok"
    /\ r.isdict
    /\ r.authors.t = "list"

\* the entries of that list the adapter normalizes
ReadItems == SubSeq(r.authors.items, 1, Min(Len(r.authors.items), max_results))

\* cited_by is a nested object whose table has a first row with a figure
NestedWithFigure(it) ==
    /\ it.cited_by.t = "dict"
    /\ it.cited_by.table.t = "list"
    /\ it.cited_by.table.rows # <<>>
    /\ it.cited_by.table.rows[1].isdict
    /\ it.cited_by.table.rows[1].citations # ABSENT

\* an entry with a name, affiliations and a scalar or nested cited_by
WellFormed(it) ==
    /\ it.isdict
    /\ it.name.t = "str"
    /\ it.affiliations.t = "str"
    /\ (it.cited_by.t = "int" \/ NestedWithFigure(it))

\* the citation figure the backend gave for a well-formed entry
Figure(it) ==
    IF it.cited_by.t = "int"
    THEN PyInt(it.cited_by.v)
    ELSE it.cited_by.table.rows[1].citations

\* C8: when the paid-API backend answers with m well-formed entries, the
\* adapter returns exactly min(m, max_results) records, the i-th carrying the
\* name, citation figure and affiliation of the backend's i-th entry.
C8_FirstKInOrder ==
    (/\ SerpapiReadList
     /\ \A i \in DOMAIN r.authors.items : WellFormed(r.authors.items[i])) =>
        /\ Len(LastRet) = Min(Len(r.authors.items), max_results)
        /\ \A i \in DOMAIN LastRet :
              /\ LastRet[i].name = r.authors.items[i].name
              /\ LastRet[i].citations = Figure(r.authors.items[i])
              /\ LastRet[i].affiliation = r.authors.items[i].affiliations

\* C8 witness: three well-formed entries, the first two different, answered
\* to a request for two: the two records returned are the first two.
C8_Witness ==
    /\ SerpapiReadList
    /\ r.authors.items = <<ItemNested, ItemScalar, ItemNested>>
    /\ max_results = 2
    /\ Len(LastRet) = 2
    /\ LastRet[1].name = ItemNested.name
    /\ LastRet[2].name = ItemScalar.name

\* an entry whose normalization raises
Unreadable(it) ==
    \/ ~it.isdict
    \/ /\ it.cited_by.t = "dict"
       /\ \/ it.cited_by.table.t = "none"
          \/ /\ it.cited_by.table.t = "list"
             /\ \/ it.cited_by.table.rows = <<>>
                \/ ~it.cited_by.table.rows[1].isdict

\* the request failed in transport, status or parsing, or the body has not
\* the expected shape, or one of the entries read is unreadable
SerpapiFailed ==
    /\ pc = "serpapi_return"
    /\ \/ r.kind # "ok"
       \/ ~r.isdict
       \/ r.authors.t = "other"
       \/ /\ r.authors.t = "list"
          /\ \E i \in DOMAIN ReadItems : Unreadable(ReadItems[i])

\* C9: the paid-API adapter never raises: no failure of it ends the run of
\* the script, and every transport, status, parse or normalization failure
\* makes it report an error and return the empty sequence, the records
\* normalized before the failing entry included.
C9_NeverRaises ==
    /\ pc # "crashed"
    /\ SerpapiFailed =>
          /\ LastRet = <<>>
          /\ msgs # <<>>
          /\ msgs[Len(msgs)] = "error_serpapi"

\* C9 witness: the second entry read is not an object while the first is
\* well-formed; the adapter has returned nothing and reported the error.
C9_Witness ==
    /\ SerpapiFailed
    /\ r.kind = "ok"
    /\ Len(ReadItems) >= 2
    /\ WellFormed(ReadItems[1])
    /\ ~ReadItems[2].isdict
    /\ LastRet = <<>>
    /\ msgs[Len(msgs)] = "error_serpapi"

\* cited_by is a nested object whose table is missing, or is an empty list,
\* or has a first row without a figure
NestedWithoutFigure(it) ==
    /\ it.cited_by.t = "dict"
    /\ \/ it.cited_by.table.t = "absent"
       \/ /\ it.cited_by.table.t = "list"
          /\ \/ it.cited_by.table.rows = <<>>
             \/ /\ it.cited_by.table.rows[1].isdict
                /\ it.cited_by.table.rows[1].citations = ABSENT

\* C10: the normalizer takes citations from the first row of cited_by.table
\* when cited_by is nested and from cited_by itself when it is a scalar (42
\* either way for the two shapes of 42), and a nested cited_by whose table is
\* missing, empty or has an empty first row gives a fallback value without
\* failing the adapter.
C10_CitationsNormalized ==
    (/\ SerpapiReadList
     /\ \A i \in DOMAIN ReadItems :
           /\ ReadItems[i].isdict
           /\ \/ ReadItems[i].cited_by.t = "int"
              \/ NestedWithFigure(ReadItems[i])
              \/ NestedWithoutFigure(ReadItems[i])) =>
        /\ Len(LastRet) = Len(ReadItems)
        /\ \A i \in DOMAIN LastRet :
              IF NestedWithoutFigure(ReadItems[i])
              THEN Populated(LastRet[i].citations)
              ELSE LastRet[i].citations = Figure(ReadItems[i])

\* C11: a fetch never raises past the orchestrator: whatever fails (proxy
\* setup, opening the search, a pull, an enrichment, the paid-API request),
\* the run never is in an uncaught-error state.
C11_NeverRaisesPastOrchestrator == pc \notin {"crashed", "scholarly_raised"}

\* C12: every invocation of the scraping adapter eventually returns, for
\* every behaviour of the backend.
C12_AdapterReturns == (pc = "scholarly_call") ~> (pc = "scholarly_return")

\* C13: a candidate whose enrichment fails is retried locally before the
\* failure is logged and the loop moves on: when the warning for a failed
\* scholarly.fill is out, that candidate was tried more than once.
C13_RetriedLocally ==
    (last_pull = "fill_error" /\ msgs # <<>> /\ msgs[Len(msgs)] = "warning_pull")
        => attempts >= 2

\* C14: a non-empty sequence returned by an adapter is the final result and
\* no adapter is invoked after it (in Auto mode, no scraping after a
\* non-empty paid-API result); the final result is empty only if every
\* adapter invoked returned empty.
C14_FirstNonEmptyWins ==
    /\ \A i \in DOMAIN rets :
          rets[i] # <<>> =>
              /\ i = Len(rets)
              /\ Len(calls) = i
              /\ pc \in {"serpapi_return", "scholarly_return", "display", "done"}
              /\ pc \in {"display", "done"} => results = rets[i]
              /\ pc = "done" => shown = rets[i]
    /\ (pc = "done" /\ shown = <<>>) => \A i \in DOMAIN rets : rets[i] = <<>>

\* C14 witness: a finished Auto fetch with a key whose paid-API call returned
\* records: they are displayed and the call is the only one.
C14_Witness ==
    /\ pc = "done"
    /\ engine = EngineAuto
    /\ serpapi_key # ""
    /\ Len(calls) = 1
    /\ calls[1].fn = "serpapi"
    /\ rets[1] # <<>>
    /\ shown = rets[1]

\* C15: once a result is accumulated, no number of consecutive failures
\* makes the loop give up: from a state with len(results) >= 1 the loop is
\* left only because len(results) reached max_results or because the stream
\* signalled exhaustion.
C15_NoAbandonWithResults ==
    [][(pc = "scholarly_loop" /\ Len(sres) >= 1 /\ pc' # "scholarly_loop") =>
          (Len(sres) >= max_results \/ last_pull' = "stop")]_vars

\* a is a prefix of b
IsPrefix(a, b) == Len(a) <= Len(b) /\ SubSeq(b, 1, Len(a)) = a

\* C16: a pass that fails leaves the accumulated results unchanged and adds
\* exactly one to the consecutive-failure counter; a pass that succeeds
\* appends exactly one record and resets the counter to zero; within one
\* invocation the results only grow by appending, the i-th record being
\* that of the i-th candidate the stream yielded.
C16_FrameEffects ==
    [][/\ (pc = "scholarly_loop" /\ pulls' = pulls + 1
           /\ last_pull' \in {"next_error", "fill_error"}) =>
              /\ sres' = sres
              /\ consecutive_errors' = consecutive_errors + 1
       /\ (pc = "scholarly_loop" /\ pulls' = pulls + 1 /\ last_pull' = "ok") =>
              /\ Len(sres') = Len(sres) + 1
              /\ consecutive_errors' = 0
       /\ calls' = calls => IsPrefix(sres, sres')
       /\ Len(sres') = Len(yielded')
       /\ \A i \in DOMAIN sres' :
              /\ sres'[i].name = yielded'[i].name
              /\ sres'[i].citations = DictGet(yielded'[i].citedby, NA)
       /\ pc' = "scholarly_return" => rets'[Len(rets')] = sres']_vars

\* C16 witness: a finished fetch that displays two different records in the
\* order of the stream, with two consecutive failures before the second.
C16_Witness ==
    /\ pc = "done"
    /\ Len(yielded) = 2
    /\ yielded[1] # yielded[2]
    /\ shown = sres
    /\ shown[1].name = yielded[1].name
    /\ shown[2].name = yielded[2].name
    /\ pulls = 4
    /\ \E i \in 1..(Len(msgs) - 1) :
          msgs[i] = "warning_pull" /\ msgs[i + 1] = "warning_pull"

\* C17: exhaustion of the stream ends the loop at once and is no error: the
\* pass that meets it leaves the failure counter, the sleeps, the messages
\* and the results as they were, no pull follows it, and the adapter
\* returns exactly the records accumulated until then.
C17_ExhaustionIsTerminal ==
    [][/\ (pc = "scholarly_loop" /\ last_pull' = "stop" /\ pulls' # pulls) =>
              /\ pc' = "scholarly_end"
              /\ consecutive_errors' = consecutive_errors
              /\ sleeps' = sleeps
              /\ msgs' = msgs
              /\ sres' = sres
       /\ last_pull = "stop" =>
              /\ pulls' = pulls
              /\ sleeps' = sleeps
              /\ sres' = sres
              /\ pc # "scholarly_loop"
              /\ pc = "scholarly_end" => rets' = Append(rets, sres)]_vars

\* C17 witness: a finished fetch whose stream was exhausted after one record
\* and one failure, although more records were asked for.
C17_Witness ==
    /\ pc = "done"
    /\ last_pull = "stop"
    /\ Len(shown) = 1
    /\ max_results >= 2
    /\ consecutive_errors = 1
    /\ pulls = 3
    /\ sleeps = 2

\* the messages setup_scholarly gives when it ran the proxy configuration
\* or was told not to use proxies
ProxySetupMsgs == {"direct", "enabled", "failed", "error"}

\* C18: no outcome of the proxy setup (proxies disabled, obtained, not
\* obtained, setup raising) is fatal: the adapter records it as its status
\* message and goes on to open the author search, and the loop runs when
\* the search opens.
C18_ProxyFailureNotFatal ==
    /\ proxy_msg \in ProxySetupMsgs =>
          /\ pc \notin {"crashed", "idle", "serpapi_call", "scholarly_call"}
          /\ pc = "scholarly_open" \/ opens = 1
    /\ opens = 1 => proxy_msg \in ProxySetupMsgs
    /\ pulls > 0 => opens = 1
    /\ ~use_proxies => proxy_msg \in {"unset", "unavailable", "direct"}

\* C18 witness: a finished fetch whose proxy setup raised an error and that
\* displays records pulled by the loop all the same.
C18_Witness ==
    /\ pc = "done"
    /\ proxy_msg = "error"
    /\ opens = 1
    /\ pulls >= 1
    /\ shown # <<>>

====
